---- MODULE Spec2Model ----
(***************************************************************************)
(* A model of the timing-control primitives of @exah/utils:                *)
(*   debounce          src/src/fns.js       319-347                        *)
(*   concurrentN       src/src/promises.js   92-129                        *)
(*   debouncePromise   src/src/promises.js  253-292                        *)
(*   queue             src/src/promises.js   66-70                         *)
(*   timeout           src/src/promises.js  170-177                        *)
(*   throttle          src/src/fns.js       363-388                        *)
(* Each primitive has its own specification (SpecDebounce, SpecConcurrent, *)
(* SpecDebouncePromise, SpecQueue, SpecTimeout, SpecThrottle); the         *)
(* variables of the other primitives stay at their idle values.            *)
(* SpecController is an instance of any of the three primitives that own   *)
(* a timer slot (debounce, throttle, debouncePromise).                     *)
(* SpecReentrant is debouncePromise with an fn that calls the wrapper from *)
(* inside the timer callback; SpecOverlap is one concurrentN runner        *)
(* invoked twice. SpecConcurrentFair and SpecDebouncePromiseFair add the   *)
(* progress of the event loop, for the claims about what happens in the    *)
(* end.                                                                    *)
(*                                                                         *)
(* The host is the JavaScript event loop: setTimeout/clearTimeout are a    *)
(* table of pending timers, a timer fires no earlier than its deadline,    *)
(* and promise reactions are jobs of a FIFO microtask queue.               *)
(***************************************************************************)
EXTENDS Integers, Sequences, FiniteSets, TLC

VARIABLES
  now,            \* the clock, in ticks
  timers,         \* setTimeout's table: the timers scheduled and neither fired nor cleared
  nextId,         \* the next timer handle setTimeout returns
  d_isImmediate,  \* debounce: the isImmediate argument
  d_timerId,      \* debounce: let timerId
  d_trace,        \* debounce: what happened so far (wrapper calls, cancels, timer firings)
  d_returns,      \* debounce: per event, what the wrapper call returned to its caller
  c_concurrency,  \* concurrentN: the concurrency argument, its whole part
  c_halves,       \* concurrentN: the concurrency argument is c_concurrency + c_halves / 2
  c_fns,          \* concurrentN: what each task of fns does when it is called
  c_args,         \* concurrentN: the arguments run is called with
  c2_args,        \* concurrentN: the arguments of a second call of run
  c2,             \* concurrentN: the closure of that second invocation
  c,              \* concurrentN: one invocation's closure, its promises and their jobs
  p_isImmediate,  \* debouncePromise: the isImmediate argument
  p_timerId,      \* debouncePromise: let timerId
  p_resolveList,  \* debouncePromise: let resolveList, the waiting calls
  p_result,       \* debouncePromise: let result, as the event that produced it
  p_trace,        \* debouncePromise: what happened so far (wrapper calls, timer firings)
  p_promise,      \* debouncePromise: per event, the promise the call returned
  q_first,        \* queue: what first does when it is called
  q_rest,         \* queue: what each function of rest does when it is called
  q_args,         \* queue: the arguments the composed function is called with
  q_state,        \* queue: "idle", "called" (a promise was returned) or "threw"
  q_promises,     \* queue: Promise.resolve(first(...args)) and the promise of each a.then(b)
  q_done,         \* queue: per function of rest, whether its reaction has run
  q_log,          \* queue: the calls of first and of the functions of rest, in order
  to_time,        \* timeout: the time argument
  to_message,     \* timeout: the errorMessage argument
  to_promise,     \* timeout: the promise argument
  to_called,      \* timeout: whether timeout has been called
  to_wait,        \* timeout: the promise of wait(time)
  to_derived,     \* timeout: the promise of wait(time).then(...)
  to_race,        \* timeout: the promise of Promise.race, which timeout returns
  to_jobs,        \* timeout: the microtask queue
  to_order,       \* timeout: the call, the settling of promise and the firing, in order
  to_times,       \* timeout: per event of to_order, the clock when it happened
  to_ownDelay,    \* timeout: the delay of promise's own timer, when a timer settles it
  th_isImmediate, \* throttle: the isImmediate argument
  th_timerId,     \* throttle: let timerId
  th_trace,       \* throttle: what happened so far (wrapper calls, cancels, timer firings)
  controller      \* which primitive this instance is

timerVars == <<now, timers, nextId>>
debounceVars == <<d_isImmediate, d_timerId, d_trace, d_returns>>
concurrentVars == <<c_concurrency, c_halves, c_fns, c_args, c, c2_args, c2>>
promiseVars == <<p_isImmediate, p_timerId, p_resolveList, p_result, p_trace, p_promise>>
queueVars == <<q_first, q_rest, q_args, q_state, q_promises, q_done, q_log>>
timeoutVars == <<to_time, to_message, to_promise, to_called, to_wait, to_derived, to_race, to_jobs,
                 to_order, to_times, to_ownDelay>>
throttleVars == <<th_isImmediate, th_timerId, th_trace>>
vars == <<timerVars, debounceVars, concurrentVars, promiseVars, queueVars, timeoutVars, throttleVars, controller>>

\* ---------------------------------------------------------------- bounds
\* the clock stops at MaxTime
MaxTime == 4
\* the delay passed to debounce / debouncePromise
Delay == 2
\* events (wrapper calls, cancels, firings) recorded per controller
MaxEvents == 5
\* events of an instance when the three kinds of controller are taken together
MaxOps == 4

\* tasks handed to concurrentN
MaxTasks == 4
\* tasks of a runner that is invoked twice
MaxShared == 2
\* the largest concurrency handed to concurrentN
MaxLimit == 3

\* functions after first handed to queue
MaxSteps == 3

\* the arguments a wrapper is called with
Args == {1, 2}

\* timerId = null
NULL == 0
\* no value yet
NONE == -1
\* let result: undefined until assigned
UNDEFINED == -2
\* what fn returns when invoked with these arguments
FnReturn(args) == 10 * args

Last(s) == s[Len(s)]

\* ------------------------------------------------------- the timer host
\* the host takes a delay below 1 for 1 (a tick is a millisecond)
timerDelay(delay) == IF delay < 1 THEN 1 ELSE delay

\* setTimeout(callback, delay): a new handle, due at now + the delay the host
\* takes; the callback's closure holds the arguments of the call that scheduled it
setTimeout(tbl, id, delay, args) ==
  tbl \cup {[id |-> id, deadline |-> now + timerDelay(delay), args |-> args]}

\* clearTimeout(id): the timer with that handle, if any, never fires
clearTimeout(tbl, id) == {t \in tbl : t.id # id}

\* time passes
Tick ==
  /\ now < MaxTime
  /\ now' = now + 1
  /\ UNCHANGED <<timers, nextId>>

\* ------------------------------------------------------------- debounce
\* the leading-edge test without its timerId === null half
debounce_leading_anytime(isImmediate, timerId) == isImmediate

\* fns.js 333: if (isImmediate && timerId === null) result = run()
debounce_leading(isImmediate, timerId) == isImmediate /\ timerId = NULL

\* fns.js 339: if (!isImmediate) run()
debounce_trailing(isImmediate) == ~isImmediate

\* cancel() without its clearTimeout
debounce_cancel_noclear(tbl, timerId) == tbl

\* fns.js 322-327: cancel(), the timer table it leaves
debounce_cancel_timers(tbl, timerId) ==
  IF timerId # NULL THEN clearTimeout(tbl, timerId) ELSE tbl

Event(kind, args, pending, ran, threw) ==
  [kind |-> kind, args |-> args, at |-> now, pending |-> pending,
   ran |-> ran, threw |-> threw]

\* a wrapper that returns what fn returned last, leading call or not
debounce_result_unconditional(leading, value) == value

\* fns.js 330-335, 343: let result; if (...) result = run(); return result
debounce_result(leading, value) == IF leading THEN value ELSE UNDEFINED

\* fns.js 329-344: debounced(...args); fn either returns or throws
debounced ==
  /\ Len(d_trace) < MaxEvents
  /\ \E args \in Args, throws \in BOOLEAN :
       LET leading == debounce_leading(d_isImmediate, d_timerId)
           ev == Event("call", args, d_timerId # NULL, leading, leading /\ throws)
       IN /\ (throws => leading)
          /\ d_trace' = Append(d_trace, ev)
          /\ d_returns' = Append(d_returns,
                            IF leading /\ throws THEN NONE
                            ELSE debounce_result(leading, FnReturn(args)))
          /\ IF leading /\ throws
               THEN \* run() threw: the exception leaves debounced before cancel()
                    UNCHANGED <<timers, nextId, d_timerId>>
               ELSE /\ timers' = setTimeout(debounce_cancel_timers(timers, d_timerId),
                                            nextId, Delay, args)
                    /\ d_timerId' = nextId
                    /\ nextId' = nextId + 1
  /\ UNCHANGED <<now, d_isImmediate>>

\* fns.js 322-327: debounced.cancel()
debounce_cancel ==
  /\ Len(d_trace) < MaxEvents
  /\ d_trace' = Append(d_trace, Event("cancel", 0, d_timerId # NULL, FALSE, FALSE))
  /\ d_returns' = Append(d_returns, NONE)
  /\ timers' = debounce_cancel_timers(timers, d_timerId)
  /\ d_timerId' = NULL
  /\ UNCHANGED <<now, nextId, d_isImmediate>>

\* fns.js 338-341: the timer callback; the host runs it once the deadline is reached
debounce_timer ==
  /\ \E t \in timers, throws \in BOOLEAN :
       LET trailing == debounce_trailing(d_isImmediate)
       IN /\ t.deadline <= now
          /\ (throws => trailing)
          /\ timers' = timers \ {t}
          /\ d_trace' = Append(d_trace,
                          Event("fire", t.args, d_timerId # NULL, trailing, throws))
          /\ d_returns' = Append(d_returns, NONE)
          /\ d_timerId' = IF throws THEN d_timerId ELSE NULL
  /\ UNCHANGED <<now, nextId, d_isImmediate>>

debounceInit ==
  /\ d_isImmediate \in BOOLEAN
  /\ d_timerId = NULL
  /\ d_trace = <<>>
  /\ d_returns = <<>>

timerInit ==
  /\ now = 0
  /\ timers = {}
  /\ nextId = 1

\* ---------------------------------------------------------- concurrentN

\* what a task does when called: return a plain value, return a promise that
\* settles later, or throw
TaskKinds == {"value", "promise", "throw"}

\* the value task k returns (or its promise fulfils with) for arguments a, and the
\* error it throws (or its promise rejects with)
TaskValue(k, a) == 10 * a + k
TaskError(k) == 100 + k

Max(a, b) == IF a >= b THEN a ELSE b
Min(a, b) == IF a <= b THEN a ELSE b

\* promises.js 95-99: the closure of one invocation, before run(lastIndex)
c_fresh ==
  [started |-> FALSE,
   args |-> c_args,         \* ...args
   promises |-> <<>>,       \* const promises = []
   lastIndex |-> 0,         \* let lastIndex = 0
   running |-> 0,           \* let running = 0
   peak |-> 0,              \* the largest value running has had
   trough |-> 0,            \* the smallest value running has had
   calls |-> <<>>,          \* the calls fns[k](...args) made so far
   order |-> <<>>,          \* the tasks whose promise has settled, in that order
   reactions |-> <<>>,      \* per promise, the reactions registered on it, in order
   jobs |-> <<>>,           \* the microtask queue
   thrown |-> NONE,         \* the exception in flight, if any
   run |-> "pending",       \* the promise run(...args) returned
   runValue |-> <<>>,
   runReason |-> NONE,
   all |-> "none",          \* the promise Promise.all(promises) returned
   allLeft |-> 0,
   allValues |-> <<>>,
   allReason |-> NONE,
   allSeen |-> {},          \* the promises whose reaction of that first Promise.all has run
   allCalls |-> 0,          \* how many times Promise.all(promises) was evaluated
   follows |-> FALSE]       \* the run promise's reaction is registered on it

c_settled(st, k) == st.promises[k + 1].state # "pending"

\* promises, lastIndex and running declared once for the runner, so that an
\* invocation goes on from what the one before it, prev, has left
c_closure_shared(prev, args) == [prev EXCEPT !.started = FALSE, !.args = args]

\* promises.js 95-99: every call of run(...args) runs the executor anew, which
\* declares promises, lastIndex and running; prev is the closure of the
\* invocation before it
c_closure(prev, args) == [c_fresh EXCEPT !.args = args]

c_enqueue(st, kind, k) == [st EXCEPT !.jobs = Append(@, [kind |-> kind, k |-> k])]

\* promise.then(...) on promise k: a reaction, queued at once when k has settled
c_register(st, k, kind) ==
  LET st1 == [st EXCEPT !.reactions[k + 1] = Append(@, kind)]
  IN IF c_settled(st, k) THEN c_enqueue(st1, kind, k) ELSE st1

RECURSIVE c_registerAll(_, _)
c_registerAll(st, k) ==
  IF k >= Len(st.promises) THEN st
  ELSE c_registerAll(c_register(st, k, "all"), k + 1)

\* promises.js 103: resolve(Promise.all(promises)). The argument is evaluated
\* first, every time: Promise.all registers a reaction on every promise. The
\* all* fields follow the promise of the first evaluation, the only one resolve
\* can take; resolve does nothing when the run promise is resolved or rejected
\* already.
c_resolveAll(st) ==
  LET n == Len(st.promises)
      st1 == IF st.all = "none"
               THEN [st EXCEPT !.all = IF n = 0 THEN "fulfilled" ELSE "pending",
                               !.allLeft = n,
                               !.allValues = [i \in 1..n |-> NONE]]
               ELSE st
      st2 == c_registerAll([st1 EXCEPT !.allCalls = @ + 1], 0)
  IN IF st.run = "pending"
       THEN c_enqueue([st2 EXCEPT !.run = "locked"], "thenable", NONE)
       ELSE st2

\* toPromise(fns[k](...args)): the promise of a task that did not throw
c_toPromise(kind, k, a) ==
  IF kind = "value" THEN [state |-> "fulfilled", value |-> TaskValue(k, a)]
  ELSE [state |-> "pending", value |-> NONE]

\* the concurrency argument, counted in halves: it need not be a whole number
c_limit == 2 * c_concurrency + c_halves

\* next() starting a task when running has already reached concurrency
c_hasRoom_offByOne(running, limit) == 2 * running <= limit

\* a next() that takes a concurrency below 1 for 1
c_hasRoom_clamped(running, limit) == 2 * running < Max(limit, 2)

\* a next() that never starts a task
c_hasRoom_never(running, limit) == FALSE

\* promises.js 123: if (running < concurrency), the two sides counted in halves
c_hasRoom(running, limit) == 2 * running < limit

\* promises.js 101-126: run(currentIndex) and next(), which call each other
RECURSIVE c_run(_, _)
c_next(st) ==
  IF c_hasRoom(st.running, c_limit) THEN c_run(st, st.lastIndex + 1) ELSE st

c_run(st, currentIndex) ==
  IF Len(st.promises) = Len(c_fns) THEN c_resolveAll(st)
  ELSE
    LET kind == c_fns[currentIndex + 1]
        called == [st EXCEPT !.calls = Append(@, [task |-> currentIndex, args |-> st.args,
                                                   threw |-> kind = "throw"])]
    IN IF kind = "throw"
         THEN [called EXCEPT !.thrown = TaskError(currentIndex)]
         ELSE
           LET pushed == [called EXCEPT
                            !.promises = Append(@, c_toPromise(kind, currentIndex, st.args)),
                            !.reactions = Append(@, <<>>),
                            !.order = IF kind = "value" THEN Append(@, currentIndex) ELSE @,
                            !.lastIndex = currentIndex,
                            !.running = @ + 1,
                            !.peak = Max(@, called.running + 1)]
               after == c_next(pushed)
           IN IF after.thrown # NONE
                THEN after      \* the exception leaves run before promise.then(...)
                ELSE c_register(after, currentIndex, "then")

\* reject(error) on the run promise
c_reject(st, e) ==
  IF st.run = "pending" THEN [st EXCEPT !.run = "rejected", !.runReason = e] ELSE st

\* promises.js 95, 128: run(...args), the executor of the promise it returns; an
\* exception that leaves the executor rejects the promise
c_invoked(st0) ==
  LET st == c_run([st0 EXCEPT !.started = TRUE], st0.lastIndex)
  IN IF st.thrown # NONE
       THEN [c_reject(st, st.thrown) EXCEPT !.thrown = NONE]
       ELSE st

c_call ==
  /\ ~c.started
  /\ c' = c_invoked(c)
  /\ UNCHANGED <<c_concurrency, c_halves, c_fns, c_args, c2_args, c2>>

\* run(...args) called again while the first invocation is under way
c2_call ==
  /\ c.started /\ ~c2.started
  /\ c2' = c_invoked(c_closure(c, c2_args))
  /\ UNCHANGED <<c_concurrency, c_halves, c_fns, c_args, c2_args, c>>

\* the promise a task returned settles; its reactions are queued in order
RECURSIVE c_queueReactions(_, _, _)
c_queueReactions(st, k, i) ==
  IF i > Len(st.reactions[k + 1]) THEN st
  ELSE c_queueReactions(c_enqueue(st, st.reactions[k + 1][i], k), k, i + 1)

c_settledAs(st, k, ok) ==
  c_queueReactions(
    [st EXCEPT !.promises[k + 1] =
                 IF ok THEN [state |-> "fulfilled", value |-> TaskValue(k, st.args)]
                 ELSE [state |-> "rejected", value |-> TaskError(k)],
               !.order = Append(@, k)],
    k, 1)

c_settleAs(ok) ==
  /\ \E k \in 0..(Len(c.promises) - 1) :
       /\ ~c_settled(c, k)
       /\ c' = c_settledAs(c, k, ok)
  /\ UNCHANGED <<c_concurrency, c_halves, c_fns, c_args, c2_args, c2>>

\* a promise a task returned to the second invocation settles
c2_settle ==
  /\ \E k \in 0..(Len(c2.promises) - 1), ok \in BOOLEAN :
       /\ ~c_settled(c2, k)
       /\ c2' = c_settledAs(c2, k, ok)
  /\ UNCHANGED <<c_concurrency, c_halves, c_fns, c_args, c2_args, c>>

c_settle == \E ok \in BOOLEAN : c_settleAs(ok)

\* promise.then(...) without its .catch(reject)
c_catch_missing(st, e) == st

\* promises.js 119: .catch(reject), for a rejection e of promise.then(...)
c_catch(st, e) == c_enqueue(st, "catch", e)

\* promises.js 114-119: the reaction of promise.then(() => { running--; next() })
c_then(st, k) ==
  IF st.promises[k + 1].state = "rejected"
    THEN c_catch(st, st.promises[k + 1].value)
    ELSE LET less == [st EXCEPT !.running = @ - 1,
                                !.trough = Min(@, st.running - 1)]
             after == c_next(less)
         IN IF after.thrown # NONE
              THEN c_catch([after EXCEPT !.thrown = NONE], after.thrown)
              ELSE after

\* results collected in the order the promises fulfil
c_allSlot_arrival(k, arrived) == arrived + 1

\* Promise.all: the slot the value of promise k goes to, arrived values counted
c_allSlot(k, arrived) == k + 1

\* the run promise follows Promise.all's promise once that has settled
c_allSettled(st) == IF st.follows THEN c_enqueue(st, "follow", NONE) ELSE st

\* Promise.all's reaction on promise k. The reactions on one promise run in the
\* order they were registered, so the first to run for k is that of the first
\* Promise.all; the promises of the later evaluations have no listener.
c_all(st, k) ==
  IF k \in st.allSeen THEN st
  ELSE
    LET seen == [st EXCEPT !.allSeen = @ \cup {k}]
    IN IF seen.all # "pending" THEN seen
       ELSE IF seen.promises[k + 1].state = "rejected"
         THEN c_allSettled([seen EXCEPT !.all = "rejected",
                                        !.allReason = seen.promises[k + 1].value])
         ELSE LET arrived == Len(seen.promises) - seen.allLeft
                  st1 == [seen EXCEPT
                            !.allValues[c_allSlot(k, arrived)] = seen.promises[k + 1].value,
                            !.allLeft = @ - 1]
              IN IF st1.allLeft = 0 THEN c_allSettled([st1 EXCEPT !.all = "fulfilled"])
                 ELSE st1

\* the job of resolve(thenable): Promise.all's promise .then(resolve, reject)
c_thenable(st) ==
  LET st1 == [st EXCEPT !.follows = TRUE]
  IN IF st.all # "pending" THEN c_enqueue(st1, "follow", NONE) ELSE st1

\* the run promise takes the outcome of Promise.all's promise
c_follow(st) ==
  IF st.all = "fulfilled"
    THEN [st EXCEPT !.run = "fulfilled", !.runValue = st.allValues]
    ELSE [st EXCEPT !.run = "rejected", !.runReason = st.allReason]

\* the event loop runs the first job of the microtask queue
c_ranJob(st0) ==
  LET j == Head(st0.jobs)
      st == [st0 EXCEPT !.jobs = Tail(@)]
  IN CASE j.kind = "then" -> c_then(st, j.k)
       [] j.kind = "catch" -> c_reject(st, j.k)
       [] j.kind = "all" -> c_all(st, j.k)
       [] j.kind = "thenable" -> c_thenable(st)
       [] j.kind = "follow" -> c_follow(st)

c_job ==
  /\ c.jobs # <<>>
  /\ c' = c_ranJob(c)
  /\ UNCHANGED <<c_concurrency, c_halves, c_fns, c_args, c2_args, c2>>

\* the event loop runs a job of the second invocation; the jobs of the two
\* invocations are kept apart, each in its own order
c2_job ==
  /\ c2.jobs # <<>>
  /\ c2' = c_ranJob(c2)
  /\ UNCHANGED <<c_concurrency, c_halves, c_fns, c_args, c2_args, c>>

concurrentIdle ==
  /\ c_concurrency = 0
  /\ c_halves = 0
  /\ c_fns = <<>>
  /\ c_args = 0
  /\ c = c_fresh
  /\ c2_args = 0
  /\ c2 = c_fresh

timerIdle == timerInit

debounceIdle ==
  /\ d_isImmediate = FALSE
  /\ d_timerId = NULL
  /\ d_trace = <<>>
  /\ d_returns = <<>>

\* concurrentN(concurrency)(...fns), before run(...args) is called
concurrentInit ==
  /\ c_concurrency \in (-1)..MaxLimit
  /\ c_halves \in IF c_concurrency < 1 THEN {0, 1} ELSE {0}
  /\ c_fns \in UNION {[1..n -> TaskKinds] : n \in 1..MaxTasks}
  /\ c_args \in Args
  /\ c = c_fresh
  /\ c2_args = c_args
  /\ c2 = c_fresh

\* a runner concurrentN(concurrency)(...fns) that will be invoked twice
overlapInit ==
  /\ c_concurrency \in 1..MaxShared
  /\ c_halves = 0
  /\ c_fns \in UNION {[1..n -> TaskKinds] : n \in 1..MaxShared}
  /\ c_args \in Args
  /\ c = c_fresh
  /\ c2_args \in {a \in Args : a > c_args}
  /\ c2 = c_closure(c, c2_args)

\* ------------------------------------------------------ debouncePromise
\* what fn does when invoked: return a value or a promise that fulfils, return a
\* promise that rejects, or throw
FnOutcomes == {"returns", "rejects", "throws"}

\* promises.js 273: if (isImmediate === true && timerId === null)
p_leading(isImmediate, timerId) == isImmediate = TRUE /\ timerId = NULL

\* the timer callback invoking fn in immediate mode too
p_trailing_always(isImmediate) == TRUE

\* promises.js 282: if (!isImmediate)
p_trailing(isImmediate) == ~isImmediate

\* promises.js 262-267: cancel(), the timer table it leaves
p_cancel_timers(tbl, timerId) ==
  IF timerId # NULL THEN clearTimeout(tbl, timerId) ELSE tbl

PEvent(kind, args, pending, ran, outcome) ==
  [kind |-> kind, args |-> args, pending |-> pending, ran |-> ran, outcome |-> outcome]

\* a promise: pending, resolved with the result of the invocation of fn made in
\* event by, or rejected with the exception of that invocation
PPromise(state, by) == [state |-> state, by |-> by]

\* resolve(value) on a promise; a promise resolves once
p_resolve(pr, by) == IF pr.state = "pending" THEN PPromise("resolved", by) ELSE pr

\* the callback without its resolveList.forEach
p_resolveEach_none(promises, list, by) == promises

\* only the last waiter is resolved
p_resolveEach_lastOnly(promises, list, by) ==
  [i \in 1..Len(promises) |->
     IF list # <<>> /\ list[Len(list)] = i THEN p_resolve(promises[i], by)
     ELSE promises[i]]

\* promises.js 286: resolveList.forEach((subResolve) => subResolve(result))
p_resolveEach(promises, list, by) ==
  [i \in 1..Len(promises) |->
     IF \E n \in 1..Len(list) : list[n] = i THEN p_resolve(promises[i], by)
     ELSE promises[i]]

\* an executor that catches what run() throws and goes on
p_executorEnds_never(outcome) == FALSE

\* promises.js 274: result = run() inside the executor, with no try around it:
\* an exception ends the executor there
p_executorEnds(outcome) == outcome = "throws"

\* promises.js 269-291: debounced(...args) and the executor of the promise it returns
p_debounced ==
  /\ Len(p_trace) < MaxEvents
  /\ \E args \in Args, outcome \in FnOutcomes \cup {"none"} :
       LET leading == p_leading(p_isImmediate, p_timerId)
           me == Len(p_trace) + 1
       IN /\ (outcome = "none") <=> ~leading
          /\ p_trace' = Append(p_trace,
                          PEvent("call", args, p_timerId # NULL, leading, outcome))
          /\ IF p_executorEnds(outcome)
               THEN \* run() threw: the executor ends and the promise is rejected
                    /\ p_promise' = Append(p_promise, PPromise("rejected", me))
                    /\ UNCHANGED <<timers, nextId, p_timerId, p_result, p_resolveList>>
               ELSE /\ IF leading
                         THEN /\ p_result' = me
                              /\ p_promise' = Append(p_promise, PPromise("resolved", me))
                              /\ UNCHANGED p_resolveList
                         ELSE /\ p_resolveList' = Append(p_resolveList, me)
                              /\ p_promise' = Append(p_promise, PPromise("pending", NONE))
                              /\ UNCHANGED p_result
                    /\ timers' = setTimeout(p_cancel_timers(timers, p_timerId),
                                            nextId, Delay, args)
                    /\ p_timerId' = nextId
                    /\ nextId' = nextId + 1
  /\ UNCHANGED <<now, p_isImmediate>>

\* promises.js 281-289: the timer callback
p_timer ==
  /\ \E t \in timers, outcome \in FnOutcomes \cup {"none"} :
       LET trailing == p_trailing(p_isImmediate)
           me == Len(p_trace) + 1
           result == IF trailing THEN me ELSE p_result
       IN /\ t.deadline <= now
          /\ (outcome = "none") <=> ~trailing
          /\ timers' = timers \ {t}
          /\ p_trace' = Append(p_trace,
                          PEvent("fire", t.args, p_timerId # NULL, trailing, outcome))
          /\ IF outcome = "throws"
               THEN \* run() threw: the callback ends before resolveList.forEach
                    /\ p_promise' = Append(p_promise, PPromise("none", NONE))
                    /\ UNCHANGED <<p_timerId, p_result, p_resolveList>>
               ELSE /\ p_result' = result
                    /\ p_promise' = Append(p_resolveEach(p_promise, p_resolveList, result),
                                           PPromise("none", NONE))
                    /\ p_resolveList' = <<>>
                    /\ p_timerId' = NULL
  /\ UNCHANGED <<now, nextId, p_isImmediate>>

\* promises.js 281-289 with fn calling the wrapper once, with arguments args,
\* before it returns: the callback has begun, so the timer is off the table
\* and timerId still holds its handle; the inner call runs 269-290 in full,
\* then the callback goes on from 283
p_timer_reentrant ==
  /\ Len(p_trace) < MaxEvents
  /\ p_trailing(p_isImmediate)
  /\ \E t \in timers, args \in Args, outcome \in FnOutcomes :
       LET me == Len(p_trace) + 1
           inner == me + 1
           fired == timers \ {t}
           \* the inner call: not a leading call, so it is pushed on resolveList
           list == Append(p_resolveList, inner)
           promises == Append(Append(p_promise, PPromise("none", NONE)),
                              PPromise("pending", NONE))
           scheduled == setTimeout(p_cancel_timers(fired, p_timerId), nextId, Delay, args)
       IN /\ t.deadline <= now
          /\ ~p_leading(p_isImmediate, p_timerId)
          /\ timers' = scheduled
          /\ nextId' = nextId + 1
          /\ p_trace' = Append(Append(p_trace,
                            PEvent("fire", t.args, p_timerId # NULL, TRUE, outcome)),
                            PEvent("reenter", args, p_timerId # NULL, FALSE, "none"))
          /\ IF outcome = "throws"
               THEN \* run() threw after the inner call: the callback ends there
                    /\ p_promise' = promises
                    /\ p_resolveList' = list
                    /\ p_timerId' = nextId
                    /\ UNCHANGED p_result
               ELSE /\ p_result' = me
                    /\ p_promise' = p_resolveEach(promises, list, me)
                    /\ p_resolveList' = <<>>
                    /\ p_timerId' = NULL
  /\ UNCHANGED <<now, p_isImmediate>>

promiseInit ==
  /\ p_isImmediate \in BOOLEAN
  /\ p_timerId = NULL
  /\ p_resolveList = <<>>
  /\ p_result = NONE
  /\ p_trace = <<>>
  /\ p_promise = <<>>

promiseIdle ==
  /\ p_isImmediate = FALSE
  /\ p_timerId = NULL
  /\ p_resolveList = <<>>
  /\ p_result = NONE
  /\ p_trace = <<>>
  /\ p_promise = <<>>


\* ---------------------------------------------------------------- queue
\* the value step k returns (or its promise fulfils with) for the input x, and the
\* error it throws (or its promise rejects with); step 0 is first
StepValue(k, x) == 10 * x + k
StepError(k) == k

QPromise(state, value) == [state |-> state, value |-> value]

\* what a step that did not throw leaves in the promise chained on it: its value,
\* or a promise still to settle ("locked" keeps the input the step was given)
q_returned(kind, k, x) ==
  IF kind = "value" THEN QPromise("fulfilled", StepValue(k, x))
  ELSE QPromise("locked", x)

\* every function of rest chained on the seed instead of on its predecessor
q_chainOn_seed(k) == 0

\* promises.js 70: rest.reduce((a, b) => a.then(b), seed): the promise the k-th
\* function of rest is chained on is the accumulator, the promise of step k - 1
q_chainOn(k) == k - 1

q_isSettled(pr) == pr.state \in {"fulfilled", "rejected"}

\* promises.js 69-70: (...args) => rest.reduce(..., Promise.resolve(first(...args)))
q_call ==
  /\ q_state = "idle"
  /\ q_log' = <<[step |-> 0, input |-> q_args, kind |-> q_first]>>
  /\ IF q_first = "throw"
       THEN \* first(...args) threw: the exception leaves the call, no promise is made
            /\ q_state' = "threw"
            /\ UNCHANGED q_promises
       ELSE /\ q_state' = "called"
            /\ q_promises' = [i \in 1..(Len(q_rest) + 1) |->
                                IF i = 1 THEN q_returned(q_first, 0, q_args)
                                ELSE QPromise("pending", NONE)]
  /\ UNCHANGED <<q_first, q_rest, q_args, q_done>>

\* the reaction of a.then(b) for the k-th function of rest: b is called with a's
\* value once a has fulfilled; a rejection of a passes to the chained promise
q_react ==
  /\ q_state = "called"
  /\ \E k \in 1..Len(q_rest) :
       LET a == q_promises[q_chainOn(k) + 1]
           kind == q_rest[k]
       IN /\ ~q_done[k]
          /\ q_isSettled(a)
          /\ q_done' = [q_done EXCEPT ![k] = TRUE]
          /\ IF a.state = "rejected"
               THEN /\ q_promises' = [q_promises EXCEPT ![k + 1] = a]
                    /\ UNCHANGED q_log
               ELSE /\ q_log' = Append(q_log, [step |-> k, input |-> a.value, kind |-> kind])
                    /\ q_promises' = [q_promises EXCEPT ![k + 1] =
                         IF kind = "throw" THEN QPromise("rejected", StepError(k))
                         ELSE q_returned(kind, k, a.value)]
  /\ UNCHANGED <<q_first, q_rest, q_args, q_state>>

\* the promise a step returned settles, and the chained promise with it
q_settle ==
  /\ q_state = "called"
  /\ \E k \in 0..Len(q_rest), ok \in BOOLEAN :
       /\ q_promises[k + 1].state = "locked"
       /\ q_promises' = [q_promises EXCEPT ![k + 1] =
            IF ok THEN QPromise("fulfilled", StepValue(k, q_promises[k + 1].value))
            ELSE QPromise("rejected", StepError(k))]
  /\ UNCHANGED <<q_first, q_rest, q_args, q_state, q_done, q_log>>

\* queue(first, ...rest), before the composed function is called
queueInit ==
  /\ q_first \in TaskKinds
  /\ q_rest \in UNION {[1..n -> TaskKinds] : n \in 0..MaxSteps}
  /\ q_args \in Args
  /\ q_state = "idle"
  /\ q_promises = <<>>
  /\ q_done = [k \in 1..Len(q_rest) |-> FALSE]
  /\ q_log = <<>>

queueIdle ==
  /\ q_first = "value"
  /\ q_rest = <<>>
  /\ q_args = 0
  /\ q_state = "idle"
  /\ q_promises = <<>>
  /\ q_done = <<>>
  /\ q_log = <<>>

\* -------------------------------------------------------------- timeout
\* timeout(promise, time, errorMessage) is
\*   Promise.race([promise, wait(time).then(() => Promise.reject(new Error(errorMessage)))])
\* The host runs a timer callback only with the microtask queue drained, and
\* the only jobs the callback of wait(time) leaves behind are the ones of the
\* rejection chain below, so nothing settles `promise` while that chain drains.

\* errorMessage = 'Timeout error'
DefaultMessage == "Timeout error"
\* the errorMessage argument: left out, or a message of the caller's
Messages == {"undefined", "custom"}
\* what `promise` settles with
Outcomes == {[state |-> "fulfilled", value |-> "value"], [state |-> "rejected", value |-> "error"]}

TPromise(state, value) == [state |-> state, value |-> value]
to_unsettled == TPromise("pending", "none")

\* the default parameter value applies when the argument is undefined
to_errorMessage(arg) == IF arg = "undefined" THEN DefaultMessage ELSE arg

\* a promise that keeps whatever settles it last
to_settleOnce_lastWins(p, from) == from

\* the resolving functions of a promise: the first call settles it, later calls
\* are ignored
to_settleOnce(p, from) == IF p.state = "pending" THEN from ELSE p

\* a callback that returns the error instead of rejecting with it
to_onElapsed_returns(message) == TPromise("fulfilled", message)

\* () => Promise.reject(new Error(errorMessage))
to_onElapsed(message) == TPromise("rejected", message)

TJob(kind, from) == [kind |-> kind, from |-> from]

\* promise is settled by a timer of its own (promise is a wait(...)), and that
\* timer has been scheduled
to_armed == \E i \in 1..Len(to_order) : to_order[i] = "arm"

\* a host that runs due timers in any order
to_runsNext_anyDue(t, tbl) == t.deadline <= now

\* the host runs the timers that are due by deadline and, for equal
\* deadlines, in the order they were scheduled
to_runsNext(t, tbl) ==
  /\ t.deadline <= now
  /\ \A u \in tbl \ {t} :
       t.deadline < u.deadline \/ (t.deadline = u.deadline /\ t.id < u.id)

\* timeout(promise, time, errorMessage): wait(time) schedules the timer, .then
\* derives the rejecting promise, Promise.race subscribes to both; a promise
\* already settled has its reaction queued at once
to_call ==
  /\ ~to_called
  /\ to_called' = TRUE
  /\ timers' = setTimeout(timers, nextId, to_time, 0)
  /\ nextId' = nextId + 1
  /\ to_wait' = "pending"
  /\ to_jobs' = IF to_promise.state = "pending" THEN <<>> ELSE <<TJob("race", to_promise)>>
  /\ to_order' = Append(to_order, "call")
  /\ to_times' = Append(to_times, now)
  /\ UNCHANGED <<now, to_time, to_message, to_promise, to_derived, to_race, to_ownDelay>>

\* promise's own timer is scheduled, before timeout is called or after:
\* new Promise((resolve) => setTimeout(resolve, delay)), as wait does
to_arm ==
  /\ ~to_armed
  /\ to_promise.state = "pending"
  /\ timers' = setTimeout(timers, nextId, to_ownDelay, 1)
  /\ nextId' = nextId + 1
  /\ to_order' = Append(to_order, "arm")
  /\ to_times' = Append(to_times, now)
  /\ UNCHANGED <<now, to_time, to_message, to_promise, to_called, to_wait, to_derived, to_race,
                 to_jobs, to_ownDelay>>

\* promise's own timer fires and fulfils promise
to_ownTimer ==
  /\ to_jobs = <<>>
  /\ \E t \in timers :
       /\ t.args = 1
       /\ to_runsNext(t, timers)
       /\ timers' = timers \ {t}
  /\ to_promise' = TPromise("fulfilled", "value")
  /\ to_jobs' = IF to_called THEN <<TJob("race", TPromise("fulfilled", "value"))>> ELSE <<>>
  /\ to_order' = Append(to_order, "settle")
  /\ to_times' = Append(to_times, now)
  /\ UNCHANGED <<now, nextId, to_time, to_message, to_called, to_wait, to_derived, to_race,
                 to_ownDelay>>

\* whoever owns `promise` settles it, when no timer does; timeout has no
\* handle on it
to_settle ==
  /\ to_promise.state = "pending"
  /\ ~to_armed
  /\ to_jobs = <<>>
  /\ \E o \in Outcomes :
       /\ to_promise' = o
       /\ to_jobs' = IF to_called THEN <<TJob("race", o)>> ELSE <<>>
  /\ to_order' = Append(to_order, "settle")
  /\ to_times' = Append(to_times, now)
  /\ UNCHANGED <<timerVars, to_time, to_message, to_called, to_wait, to_derived, to_race,
                 to_ownDelay>>

\* the timer of wait(time) fires: setTimeout(resolve, duration)
to_timer ==
  /\ to_jobs = <<>>
  /\ \E t \in timers :
       /\ t.args = 0
       /\ to_runsNext(t, timers)
       /\ timers' = timers \ {t}
  /\ to_wait' = "fulfilled"
  /\ to_jobs' = <<TJob("then", to_unsettled)>>
  /\ to_order' = Append(to_order, "fire")
  /\ to_times' = Append(to_times, now)
  /\ UNCHANGED <<now, nextId, to_time, to_message, to_promise, to_called, to_derived, to_race,
                 to_ownDelay>>

\* the next job of the microtask queue
to_job ==
  /\ to_jobs # <<>>
  /\ LET job == Head(to_jobs)
         rest == Tail(to_jobs)
     IN  CASE job.kind = "race" ->
                \* a reaction Promise.race registered on one of its two inputs
                /\ to_race' = to_settleOnce(to_race, job.from)
                /\ to_jobs' = rest
                /\ UNCHANGED to_derived
           [] job.kind = "then" ->
                \* the callback of .then runs; what it returns is a promise, so
                \* the derived promise is resolved with a thenable
                /\ to_jobs' = Append(rest, TJob("thenable", to_onElapsed(to_errorMessage(to_message))))
                /\ UNCHANGED <<to_race, to_derived>>
           [] job.kind = "thenable" ->
                \* the returned promise's then is called; it is settled already
                /\ to_jobs' = Append(rest, TJob("follow", job.from))
                /\ UNCHANGED <<to_race, to_derived>>
           [] job.kind = "follow" ->
                \* the derived promise takes the returned promise's outcome
                /\ to_derived' = to_settleOnce(to_derived, job.from)
                /\ to_jobs' = Append(rest, TJob("race", job.from))
                /\ UNCHANGED to_race
  /\ UNCHANGED <<timerVars, to_time, to_message, to_promise, to_called, to_wait, to_order,
                 to_times, to_ownDelay>>

\* before timeout is called
timeoutInit ==
  /\ to_time \in 0..Delay
  /\ to_message \in Messages
  /\ to_promise = to_unsettled
  /\ to_called = FALSE
  /\ to_wait = "none"
  /\ to_derived = to_unsettled
  /\ to_race = to_unsettled
  /\ to_jobs = <<>>
  /\ to_order = <<>>
  /\ to_times = <<>>
  /\ to_ownDelay \in 0..Delay

timeoutIdle ==
  /\ to_time = 0
  /\ to_message = "undefined"
  /\ to_promise = to_unsettled
  /\ to_called = FALSE
  /\ to_wait = "none"
  /\ to_derived = to_unsettled
  /\ to_race = to_unsettled
  /\ to_jobs = <<>>
  /\ to_order = <<>>
  /\ to_times = <<>>
  /\ to_ownDelay = 0

\* ------------------------------------------------------------- throttle
\* a wrapper that never drops a call
throttle_dropped_never(timerId) == FALSE

\* fns.js 374: if (timerId !== null) return
throttle_dropped(timerId) == timerId # NULL

\* fns.js 377: if (isImmediate) run()
throttle_leading(isImmediate) == isImmediate

\* a timer callback that runs fn in both modes
throttle_trailing_always(isImmediate) == TRUE

\* fns.js 382: if (!isImmediate) run()
throttle_trailing(isImmediate) == ~isImmediate

\* cancel() without its clearTimeout
throttle_cancel_noclear(tbl, timerId) == tbl

\* fns.js 366-371: cancel(), the timer table it leaves
throttle_cancel_timers(tbl, timerId) ==
  IF timerId # NULL THEN clearTimeout(tbl, timerId) ELSE tbl

\* fns.js 373-385: throttled(...args); fn either returns or throws
throttled ==
  /\ Len(th_trace) < MaxEvents
  /\ \E args \in Args, throws \in BOOLEAN :
       LET dropped == throttle_dropped(th_timerId)
           leading == ~dropped /\ throttle_leading(th_isImmediate)
           ev == Event("call", args, th_timerId # NULL, leading, leading /\ throws)
       IN /\ (throws => leading)
          /\ th_trace' = Append(th_trace, ev)
          /\ IF dropped \/ (leading /\ throws)
               THEN \* the early return, or run() threw before setTimeout
                    UNCHANGED <<timers, nextId, th_timerId>>
               ELSE /\ timers' = setTimeout(timers, nextId, Delay, args)
                    /\ th_timerId' = nextId
                    /\ nextId' = nextId + 1
  /\ UNCHANGED <<now, th_isImmediate>>

\* fns.js 366-371: throttled.cancel()
throttle_cancel ==
  /\ Len(th_trace) < MaxEvents
  /\ th_trace' = Append(th_trace, Event("cancel", 0, th_timerId # NULL, FALSE, FALSE))
  /\ timers' = throttle_cancel_timers(timers, th_timerId)
  /\ th_timerId' = NULL
  /\ UNCHANGED <<now, nextId, th_isImmediate>>

\* fns.js 381-384: the timer callback; the host runs it once the deadline is reached
throttle_timer ==
  /\ \E t \in timers, throws \in BOOLEAN :
       LET trailing == throttle_trailing(th_isImmediate)
       IN /\ t.deadline <= now
          /\ (throws => trailing)
          /\ timers' = timers \ {t}
          /\ th_trace' = Append(th_trace,
                           Event("fire", t.args, th_timerId # NULL, trailing, throws))
          /\ th_timerId' = IF throws THEN th_timerId ELSE NULL
  /\ UNCHANGED <<now, nextId, th_isImmediate>>

throttleInit ==
  /\ th_isImmediate \in BOOLEAN
  /\ th_timerId = NULL
  /\ th_trace = <<>>

throttleIdle ==
  /\ th_isImmediate = FALSE
  /\ th_timerId = NULL
  /\ th_trace = <<>>

\* ------------------------------------------------------ specifications
InitDebounce == timerInit /\ debounceInit /\ concurrentIdle /\ promiseIdle /\ queueIdle /\ timeoutIdle /\ throttleIdle /\ controller = "debounce"

NextDebounce ==
  \/ Tick /\ UNCHANGED <<debounceVars, concurrentVars, promiseVars, queueVars, timeoutVars, throttleVars, controller>>
  \/ debounced /\ UNCHANGED <<concurrentVars, promiseVars, queueVars, timeoutVars, throttleVars, controller>>
  \/ debounce_cancel /\ UNCHANGED <<concurrentVars, promiseVars, queueVars, timeoutVars, throttleVars, controller>>
  \/ debounce_timer /\ UNCHANGED <<concurrentVars, promiseVars, queueVars, timeoutVars, throttleVars, controller>>

SpecDebounce == InitDebounce /\ [][NextDebounce]_vars

InitConcurrent == timerIdle /\ debounceIdle /\ concurrentInit /\ promiseIdle /\ queueIdle /\ timeoutIdle /\ throttleIdle /\ controller = "concurrentN"

NextConcurrent ==
  \/ c_call /\ UNCHANGED <<timerVars, debounceVars, promiseVars, queueVars, timeoutVars, throttleVars, controller>>
  \/ c_settle /\ UNCHANGED <<timerVars, debounceVars, promiseVars, queueVars, timeoutVars, throttleVars, controller>>
  \/ c_job /\ UNCHANGED <<timerVars, debounceVars, promiseVars, queueVars, timeoutVars, throttleVars, controller>>

SpecConcurrent == InitConcurrent /\ [][NextConcurrent]_vars

c_rest == <<timerVars, debounceVars, promiseVars, queueVars, timeoutVars, throttleVars, controller>>

\* runs of a valid limit over at least one task, none of which throws
InitConcurrentFair ==
  /\ InitConcurrent
  /\ c_concurrency >= 1
  /\ c_fns # <<>>
  /\ \A k \in 1..Len(c_fns) : c_fns[k] # "throw"

InitOverlap == timerIdle /\ debounceIdle /\ overlapInit /\ promiseIdle /\ queueIdle /\ timeoutIdle /\ throttleIdle /\ controller = "concurrentN"

\* two invocations of one runner, the second made while the first is under way;
\* a promise of a task may settle at any point, with jobs queued or not
NextOverlap ==
  \/ c_call /\ UNCHANGED c_rest
  \/ c_settle /\ UNCHANGED c_rest
  \/ c_job /\ UNCHANGED c_rest
  \/ c2_call /\ UNCHANGED c_rest
  \/ c2_settle /\ UNCHANGED c_rest
  \/ c2_job /\ UNCHANGED c_rest

SpecOverlap == InitOverlap /\ [][NextOverlap]_vars

\* every promise a task returned fulfils
NextConcurrentFair ==
  \/ c_call /\ UNCHANGED c_rest
  \/ c_settleAs(TRUE) /\ UNCHANGED c_rest
  \/ c_job /\ UNCHANGED c_rest

\* the event loop makes progress once run is called: the jobs of the
\* microtask queue are run, and a promise a task returned settles
SpecConcurrentFair ==
  /\ InitConcurrentFair /\ [][NextConcurrentFair]_vars
  /\ WF_vars(c_settleAs(TRUE) /\ UNCHANGED c_rest)
  /\ WF_vars(c_job /\ UNCHANGED c_rest)

InitDebouncePromise == timerInit /\ debounceIdle /\ concurrentIdle /\ promiseInit /\ queueIdle /\ timeoutIdle /\ throttleIdle /\ controller = "debouncePromise"

NextDebouncePromise ==
  \/ Tick /\ UNCHANGED <<debounceVars, concurrentVars, promiseVars, queueVars, timeoutVars, throttleVars, controller>>
  \/ p_debounced /\ UNCHANGED <<debounceVars, concurrentVars, queueVars, timeoutVars, throttleVars, controller>>
  \/ p_timer /\ UNCHANGED <<debounceVars, concurrentVars, queueVars, timeoutVars, throttleVars, controller>>

SpecDebouncePromise == InitDebouncePromise /\ [][NextDebouncePromise]_vars

\* debouncePromise with an fn that may call the wrapper from inside the timer
\* callback
NextReentrant ==
  \/ NextDebouncePromise
  \/ p_timer_reentrant /\ UNCHANGED <<debounceVars, concurrentVars, queueVars, timeoutVars, throttleVars, controller>>

SpecReentrant == InitDebouncePromise /\ [][NextReentrant]_vars

p_rest == <<debounceVars, concurrentVars, queueVars, timeoutVars, throttleVars, controller>>

\* the wrapper is called, from outside or from fn, only while the clock of the
\* model can still reach the deadline of the timer the call schedules
NextDebouncePromiseFair ==
  \/ Tick /\ UNCHANGED <<promiseVars, p_rest>>
  \/ now + Delay <= MaxTime /\ p_debounced /\ UNCHANGED p_rest
  \/ p_timer /\ UNCHANGED p_rest
  \/ now + Delay <= MaxTime /\ p_timer_reentrant /\ UNCHANGED p_rest

\* time passes and the host runs the callback of a timer that is due
SpecDebouncePromiseFair ==
  /\ InitDebouncePromise /\ [][NextDebouncePromiseFair]_vars
  /\ WF_vars(Tick /\ UNCHANGED <<promiseVars, p_rest>>)
  /\ WF_vars(p_timer /\ UNCHANGED p_rest)


InitQueue == timerIdle /\ debounceIdle /\ concurrentIdle /\ promiseIdle /\ queueInit /\ timeoutIdle /\ throttleIdle /\ controller = "queue"

NextQueue ==
  \/ q_call /\ UNCHANGED <<timerVars, debounceVars, concurrentVars, promiseVars, timeoutVars, throttleVars, controller>>
  \/ q_react /\ UNCHANGED <<timerVars, debounceVars, concurrentVars, promiseVars, timeoutVars, throttleVars, controller>>
  \/ q_settle /\ UNCHANGED <<timerVars, debounceVars, concurrentVars, promiseVars, timeoutVars, throttleVars, controller>>

SpecQueue == InitQueue /\ [][NextQueue]_vars

InitTimeout == timerInit /\ debounceIdle /\ concurrentIdle /\ promiseIdle /\ queueIdle /\ timeoutInit /\ throttleIdle /\ controller = "timeout"

NextTimeout ==
  \/ Tick /\ UNCHANGED <<debounceVars, concurrentVars, promiseVars, queueVars, timeoutVars, throttleVars, controller>>
  \/ to_call /\ UNCHANGED <<debounceVars, concurrentVars, promiseVars, queueVars, throttleVars, controller>>
  \/ to_settle /\ UNCHANGED <<debounceVars, concurrentVars, promiseVars, queueVars, throttleVars, controller>>
  \/ to_timer /\ UNCHANGED <<debounceVars, concurrentVars, promiseVars, queueVars, throttleVars, controller>>
  \/ to_arm /\ UNCHANGED <<debounceVars, concurrentVars, promiseVars, queueVars, throttleVars, controller>>
  \/ to_ownTimer /\ UNCHANGED <<debounceVars, concurrentVars, promiseVars, queueVars, throttleVars, controller>>
  \/ to_job /\ UNCHANGED <<debounceVars, concurrentVars, promiseVars, queueVars, throttleVars, controller>>

SpecTimeout == InitTimeout /\ [][NextTimeout]_vars

InitThrottle == timerInit /\ debounceIdle /\ concurrentIdle /\ promiseIdle /\ queueIdle /\ timeoutIdle /\ throttleInit /\ controller = "throttle"

NextThrottle ==
  \/ Tick /\ UNCHANGED <<debounceVars, concurrentVars, promiseVars, queueVars, timeoutVars, throttleVars, controller>>
  \/ throttled /\ UNCHANGED <<debounceVars, concurrentVars, promiseVars, queueVars, timeoutVars, controller>>
  \/ throttle_cancel /\ UNCHANGED <<debounceVars, concurrentVars, promiseVars, queueVars, timeoutVars, controller>>
  \/ throttle_timer /\ UNCHANGED <<debounceVars, concurrentVars, promiseVars, queueVars, timeoutVars, controller>>

SpecThrottle == InitThrottle /\ [][NextThrottle]_vars

\* a controller with a timer slot: a debounce, a throttle or a debouncePromise
InitController == InitDebounce \/ InitThrottle \/ InitDebouncePromise

\* the events the instance has seen
ctl_events == Len(d_trace) + Len(th_trace) + Len(p_trace)

NextController ==
  \/ ctl_events < MaxOps /\ controller = "debounce" /\ NextDebounce
  \/ ctl_events < MaxOps /\ controller = "throttle" /\ NextThrottle
  \/ ctl_events < MaxOps /\ controller = "debouncePromise" /\ NextDebouncePromise

SpecController == InitController /\ [][NextController]_vars

\* ------------------------------------------------- debounce: the claims
d_dom == 1..Len(d_trace)
d_noCancel == \A i \in d_dom : d_trace[i].kind # "cancel"
\* event j is the first invocation of fn after event i
d_nextRun(i, j) ==
  /\ i < j
  /\ d_trace[i].ran /\ d_trace[j].ran
  /\ \A k \in (i+1)..(j-1) : ~d_trace[k].ran

\* C1: non-immediate debounce, cancel() never called: no wrapper call invokes fn;
\* every timer that fires is the timer of the call just before it, so a burst of
\* calls ends in one firing, which invokes fn once with the last call's arguments;
\* while a burst lasts its one timer is pending with those arguments.
C1_TrailingOnceWithLastArgs ==
  (~d_isImmediate /\ d_noCancel) =>
    /\ \A i \in d_dom :
         /\ d_trace[i].kind = "call" => ~d_trace[i].ran
         /\ d_trace[i].kind = "fire" =>
              /\ d_trace[i].ran
              /\ i > 1
              /\ d_trace[i-1].kind = "call"
              /\ d_trace[i].args = d_trace[i-1].args
    /\ (d_trace # <<>> /\ Last(d_trace).kind = "call") =>
         /\ Cardinality(timers) = 1
         /\ \A t \in timers : t.args = Last(d_trace).args /\ t.id = d_timerId

\* a burst of three calls, the first and the last with different arguments, then
\* the firing that invokes fn
C1_Witness ==
  /\ ~d_isImmediate /\ d_noCancel
  /\ \E i \in d_dom :
       /\ i >= 4
       /\ d_trace[i].kind = "fire" /\ d_trace[i].ran
       /\ \A k \in (i-3)..(i-1) : d_trace[k].kind = "call"
       /\ d_trace[i-3].args # d_trace[i-1].args
       /\ d_trace[i].args = d_trace[i-1].args

\* the parts of C2 that hold whatever fn does: in immediate mode a call that finds
\* no timer pending invokes fn, a call that finds one does not and leaves one timer
\* due a full delay later, and a firing never invokes fn
d_immediateEdges ==
  /\ \A i \in d_dom :
       /\ d_trace[i].kind = "call" => (d_trace[i].ran <=> ~d_trace[i].pending)
       /\ d_trace[i].kind = "fire" => ~d_trace[i].ran
  /\ (d_trace # <<>> /\ Last(d_trace).kind = "call" /\ ~Last(d_trace).threw) =>
       timers = {[id |-> d_timerId, deadline |-> Last(d_trace).at + Delay,
                  args |-> Last(d_trace).args]}

\* C2: immediate debounce, cancel() never called: the edges above, and
\* after any leading invocation fn is not invoked again until a full delay has
\* passed since the last wrapper call.
C2_LeadingOncePerWindow ==
  (d_isImmediate /\ d_noCancel) =>
    /\ d_immediateEdges
    /\ \A i \in d_dom, j \in d_dom :
         d_nextRun(i, j) =>
           \A k \in i..(j-1) :
             d_trace[k].kind = "call" => d_trace[j].at - d_trace[k].at >= Delay

\* What the code does guarantee there: the edges above, and after a leading
\* invocation that returned normally fn is not invoked again until a full delay has
\* passed since the last wrapper call; a leading invocation that throws schedules
\* no timer, so the very next call invokes fn again.
d_leadingOncePerWindow ==
  (d_isImmediate /\ d_noCancel) =>
    /\ d_immediateEdges
    /\ \A i \in d_dom, j \in d_dom :
         (d_nextRun(i, j) /\ ~d_trace[i].threw) =>
           \A k \in i..(j-1) :
             d_trace[k].kind = "call" => d_trace[j].at - d_trace[k].at >= Delay
    /\ \A i \in d_dom :
         (d_trace[i].kind = "call" /\ d_trace[i].threw /\ i < Len(d_trace)
            /\ d_trace[i+1].kind = "call") => d_trace[i+1].ran

\* a leading invocation, a call inside its window, the firing, a new leading
\* invocation
d_leadingWindowSeen ==
  /\ d_isImmediate /\ d_noCancel
  /\ \E i \in d_dom :
       /\ i >= 4
       /\ d_trace[i-3].kind = "call" /\ d_trace[i-3].ran /\ ~d_trace[i-3].threw
       /\ d_trace[i-2].kind = "call" /\ ~d_trace[i-2].ran
       /\ d_trace[i-1].kind = "fire"
       /\ d_trace[i].kind = "call" /\ d_trace[i].ran

\* ---------------------------------------------- concurrentN: the claims
c_pending == {k \in 1..Len(c.promises) : c.promises[k].state = "pending"}
c_allFulfilled == \A k \in 1..Len(c.promises) : c.promises[k].state = "fulfilled"
c_noThrower == \A k \in 1..Len(c_fns) : c_fns[k] # "throw"
\* the errors of the tasks that failed: a promise that rejected, a call that threw
c_failures ==
  {c.promises[k].value : k \in {i \in 1..Len(c.promises) : c.promises[i].state = "rejected"}}
    \cup {TaskError(c.calls[i].task) : i \in {j \in 1..Len(c.calls) : c.calls[j].threw}}

\* C3: with concurrency >= 1 the running counter, at every point it is read or
\* written, and the number of started tasks whose promise has not settled are
\* between 0 and concurrency.
C3_RunningWithinLimit ==
  c_concurrency >= 1 =>
    /\ 0 <= c.trough /\ c.trough <= c.running
    /\ c.running <= c.peak /\ c.peak <= c_concurrency
    /\ Cardinality(c_pending) <= c.running

\* the limit is reached again after a task fulfilled and the next one was started
C3_Witness ==
  /\ c_concurrency >= 1
  /\ Len(c.promises) > c_concurrency
  /\ c.running = c_concurrency
  /\ Cardinality(c_pending) = c_concurrency

\* C4: when the run promise fulfils, its value has one element per task and element
\* i is the value of tasks[i]; and with concurrency >= 1, once every task has been
\* started and has fulfilled and no job is left, the run promise has fulfilled.
C4_ResultsInTaskOrder ==
  /\ c.run = "fulfilled" =>
       /\ Len(c.runValue) = Len(c_fns)
       /\ \A i \in 1..Len(c_fns) : c.runValue[i] = TaskValue(i - 1, c_args)
  /\ (c_concurrency >= 1 /\ c.started /\ c.jobs = <<>> /\ c_noThrower /\ c_allFulfilled)
       => c.run = "fulfilled"

\* more tasks than the limit, a synchronous task among them, and a task that
\* settled before a task of lower index
C4_Witness ==
  /\ c.run = "fulfilled"
  /\ Len(c_fns) > c_concurrency
  /\ \E k \in 1..Len(c_fns) : c_fns[k] = "value"
  /\ \E i \in 1..Len(c.order), j \in 1..Len(c.order) : i < j /\ c.order[i] > c.order[j]

\* C5: once a task has failed (its promise rejected, or it threw when called) the
\* run promise does not fulfil, and when no job is left it has rejected with the
\* error of a task that failed: of that task, when it is the only one that failed.
C5_FailureRejectsRun ==
  /\ c.run = "fulfilled" => c_failures = {}
  /\ c.run = "rejected" => c.runReason \in c_failures
  /\ (c.started /\ c.jobs = <<>> /\ c_failures # {}) => c.run = "rejected"

\* a task that was started from the fulfilment of another task threw, and the run
\* promise rejected with its error
C5_Witness ==
  /\ c.run = "rejected" /\ c.jobs = <<>>
  /\ c_concurrency >= 1
  /\ \E i \in 1..Len(c.calls) :
       /\ c.calls[i].threw
       /\ c.calls[i].task >= c_concurrency
       /\ c.runReason = TaskError(c.calls[i].task)

\* ------------------------------------------ debouncePromise: the claims
p_dom == 1..Len(p_trace)
\* call k belongs to the window that the firing i closes
p_window(k, i) ==
  /\ k < i
  /\ p_trace[k].kind = "call"
  /\ \A m \in (k+1)..(i-1) : p_trace[m].kind # "fire"
\* no timer has fired since call k
p_open(k) == \A m \in (k+1)..Len(p_trace) : p_trace[m].kind # "fire"
\* event m is the last invocation of fn before event i
p_lastRun(m, i) ==
  /\ m < i
  /\ p_trace[m].ran
  /\ \A n \in (m+1)..(i-1) : ~p_trace[n].ran
\* the promise of call k rejects with the error of the invocation made in event i
p_rejectsWith(k, i) ==
  \/ p_promise[k] = PPromise("rejected", i)
  \/ p_promise[k] = PPromise("resolved", i) /\ p_trace[i].outcome = "rejects"

\* C6: non-immediate debouncePromise: no wrapper call invokes fn and its promise
\* stays pending while its window is open; the timer that fires is the timer of the
\* call just before it, its callback invokes fn once with that last call's
\* arguments, and when fn returns, the promise of every call of the window is
\* resolved with the result of that invocation.
C6_WindowSharesOneResult ==
  ~p_isImmediate =>
    \A i \in p_dom :
      /\ p_trace[i].kind = "call" =>
           /\ ~p_trace[i].ran
           /\ p_open(i) => p_promise[i].state = "pending"
      /\ p_trace[i].kind = "fire" =>
           /\ p_trace[i].ran
           /\ i > 1
           /\ p_trace[i-1].kind = "call"
           /\ p_trace[i].args = p_trace[i-1].args
           /\ p_trace[i].outcome # "throws" =>
                \A k \in p_dom : p_window(k, i) => p_promise[k] = PPromise("resolved", i)

\* a window of three calls, the first and the last with different arguments, closed
\* by a firing whose result all three promises carry
C6_Witness ==
  /\ ~p_isImmediate
  /\ \E i \in p_dom :
       /\ i >= 4
       /\ p_trace[i].kind = "fire" /\ p_trace[i].outcome = "returns"
       /\ \A k \in (i-3)..(i-1) :
            p_trace[k].kind = "call" /\ p_promise[k] = PPromise("resolved", i)
       /\ p_trace[i-3].args # p_trace[i-1].args
       /\ p_trace[i].args = p_trace[i-1].args

\* C7: immediate debouncePromise: a call that finds no timer pending invokes fn and
\* its own promise carries that invocation's outcome; a call that finds a timer
\* pending does not invoke fn, waits in resolveList while the window is open, and
\* once the timer has fired is resolved with the result of the leading invocation
\* that opened the window; a firing never invokes fn; a call right after a firing
\* invokes fn afresh.
C7_ImmediateSharesLeadingResult ==
  p_isImmediate =>
    \A i \in p_dom :
      /\ (p_trace[i].kind = "call" /\ ~p_trace[i].pending) =>
           /\ p_trace[i].ran
           /\ p_promise[i] = PPromise(IF p_trace[i].outcome = "throws" THEN "rejected"
                                      ELSE "resolved", i)
      /\ (p_trace[i].kind = "call" /\ p_trace[i].pending) =>
           /\ ~p_trace[i].ran
           /\ \E m \in p_dom :
                /\ p_lastRun(m, i)
                /\ p_trace[m].kind = "call" /\ p_trace[m].outcome # "throws"
                /\ IF p_open(i)
                     THEN /\ p_promise[i].state = "pending"
                          /\ \E n \in 1..Len(p_resolveList) : p_resolveList[n] = i
                     ELSE p_promise[i] = PPromise("resolved", m)
      /\ p_trace[i].kind = "fire" => ~p_trace[i].ran
      /\ (p_trace[i].kind = "call" /\ i > 1 /\ p_trace[i-1].kind = "fire") => p_trace[i].ran

\* a leading call, two calls queued in its window and resolved with its result when
\* the timer fired, then a call that invokes fn afresh
C7_Witness ==
  /\ p_isImmediate
  /\ \E i \in p_dom :
       /\ i >= 5
       /\ p_trace[i-4].kind = "call" /\ p_trace[i-4].ran
       /\ \A k \in (i-3)..(i-2) :
            p_trace[k].kind = "call" /\ p_promise[k] = PPromise("resolved", i - 4)
       /\ p_trace[i-1].kind = "fire"
       /\ p_trace[i].kind = "call" /\ p_promise[i] = PPromise("resolved", i)

\* the batch of an invocation of fn: in non-immediate mode the calls of the window
\* the firing closes; in immediate mode the leading call itself and, once the
\* window it opened has closed, the calls queued during it
p_batch(k, i) ==
  IF p_trace[i].kind = "fire" THEN p_window(k, i)
  ELSE \/ k = i
       \/ /\ i < k /\ p_trace[k].kind = "call" /\ ~p_open(k)
          /\ \A m \in (i+1)..k : p_trace[m].kind = "call" /\ ~p_trace[m].ran

\* C8: when an invocation of fn throws or returns a promise that rejects, the
\* promise of every call of its batch rejects with that error, in the timer callback
\* (non-immediate mode) as in the leading call (immediate mode).
C8_FailureRejectsBatch ==
  \A i \in p_dom :
    (p_trace[i].ran /\ p_trace[i].outcome \in {"throws", "rejects"}) =>
      \A k \in p_dom : p_batch(k, i) => p_rejectsWith(k, i)

\* What the code does guarantee there: the same, for every failure but an
\* exception thrown by fn inside the timer callback.
p_failureRejectsBatchUnlessCallbackThrows ==
  \A i \in p_dom :
    (/\ p_trace[i].ran /\ p_trace[i].outcome \in {"throws", "rejects"}
     /\ ~(p_trace[i].kind = "fire" /\ p_trace[i].outcome = "throws")) =>
      \A k \in p_dom : p_batch(k, i) => p_rejectsWith(k, i)

\* ------------------------------------------------------ queue: the claims
q_dom == 1..Len(q_log)
\* the promise the call returned: the last of the chain
q_result == q_promises[Len(q_promises)]
\* the call logged at i failed: it threw, or the promise it returned rejected
q_failed(i) ==
  \/ q_log[i].kind = "throw"
  \/ /\ q_log[i].kind = "promise"
     /\ q_promises[q_log[i].step + 1] = QPromise("rejected", StepError(q_log[i].step))
\* after a failure of step k: no later step was called, the returned promise has
\* not fulfilled, and once the rejection has passed down the chain it has rejected
\* with the error of step k
q_rejectsWith(k) ==
  /\ \A j \in q_dom : q_log[j].step <= k
  /\ q_result.state # "fulfilled"
  /\ (\A m \in (k+1)..Len(q_rest) : q_done[m]) => q_result = QPromise("rejected", StepError(k))

\* C9: when a step, first included, throws or returns a promise that rejects, the
\* call has returned a promise, that promise rejects with that error, and no later
\* step is called.
C9_FirstErrorRejects ==
  \A i \in q_dom :
    q_failed(i) => (q_state = "called" /\ q_rejectsWith(q_log[i].step))

\* What the code does guarantee there: the same for every failure but an exception
\* thrown by first, which leaves the call as an exception: no promise is returned
\* and no function of rest is called.
q_firstErrorRejectsUnlessFirstThrows ==
  \A i \in q_dom :
    q_failed(i) =>
      IF q_log[i].step = 0 /\ q_log[i].kind = "throw"
        THEN q_state = "threw" /\ Len(q_log) = 1 /\ q_promises = <<>>
        ELSE q_state = "called" /\ q_rejectsWith(q_log[i].step)

\* C10: the call itself calls first with args; the functions of rest are called in
\* list order, each once, each when the promise of the step before it has fulfilled
\* and with the value it fulfilled with; the returned promise fulfils with the value
\* of the last step, and has done so once every step has run and fulfilled.
C10_StepsInOrder ==
  /\ q_state # "idle" => (q_log # <<>> /\ q_log[1] = [step |-> 0, input |-> q_args, kind |-> q_first])
  /\ \A i \in q_dom :
       /\ q_log[i].step = i - 1
       /\ i > 1 =>
            /\ q_promises[i - 1].state = "fulfilled"
            /\ q_log[i].input = q_promises[i - 1].value
            /\ q_log[i].input = StepValue(i - 2, q_log[i - 1].input)
  /\ q_state = "called" =>
       /\ q_result.state = "fulfilled" =>
            /\ Len(q_log) = Len(q_rest) + 1
            /\ q_result.value = StepValue(Len(q_rest), q_log[Len(q_log)].input)
       /\ (/\ \A k \in 1..Len(q_rest) : q_done[k]
           /\ \A k \in 1..Len(q_promises) : q_promises[k].state \notin {"locked", "rejected"})
            => q_result.state = "fulfilled"

\* first and three functions of rest, one of them returning a promise, all called
\* and the returned promise fulfilled
C10_Witness ==
  /\ q_state = "called"
  /\ Len(q_rest) >= 3
  /\ \E k \in 1..Len(q_rest) : q_rest[k] = "promise"
  /\ \E k \in 1..Len(q_rest) : q_rest[k] = "value"
  /\ Len(q_log) = Len(q_rest) + 1
  /\ q_result.state = "fulfilled"

\* -------------------------------------------------- timeout: the claims
to_pos(e) == CHOOSE i \in 1..Len(to_order) : to_order[i] = e
to_happened(e) == \E i \in 1..Len(to_order) : to_order[i] = e
\* promise settled, and the timer had not fired by then
to_settledFirst ==
  /\ to_called
  /\ to_happened("settle")
  /\ to_happened("fire") => to_pos("settle") < to_pos("fire")
\* the timer fired, and promise was unsettled then
to_firedFirst ==
  /\ to_happened("fire")
  /\ to_happened("settle") => to_pos("fire") < to_pos("settle")
\* the reaction that hands promise's outcome to the returned promise is queued
to_reactionQueued == \E i \in 1..Len(to_jobs) : to_jobs[i] = TJob("race", to_promise)

\* C11: when promise settles before the timer of the duration fires, the
\* promise timeout returned settles with promise's own outcome (its value or
\* its error) as soon as the queued reaction has run, and keeps that outcome
\* when the timer fires later.
C11_PromiseFirstWins ==
  to_settledFirst =>
    IF to_reactionQueued THEN to_race = to_unsettled ELSE to_race = to_promise

\* promise settled first, the timer fired afterwards and its whole chain ran
C11_Witness ==
  /\ to_settledFirst
  /\ to_happened("fire")
  /\ to_jobs = <<>>
  /\ to_derived.state = "rejected"
  /\ to_race = to_promise

\* C12: when the timer of the duration fires while promise is unsettled, the
\* promise timeout returned rejects with an Error carrying the message given
\* ('Timeout error' when none is given) once the chain of the timer has run,
\* and stays so whatever promise does afterwards; promise settles on its own.
C12_TimerFirstRejects ==
  to_firedFirst =>
    \/ to_race = to_unsettled /\ to_jobs # <<>> /\ ~to_happened("settle")
    \/ to_race = TPromise("rejected",
                   IF to_message = "undefined" THEN "Timeout error" ELSE to_message)

\* the timer fired first, the result rejected, and promise fulfilled afterwards
C12_Witness ==
  /\ to_firedFirst
  /\ to_promise.state = "fulfilled"
  /\ to_jobs = <<>>
  /\ to_race.state = "rejected"
  /\ to_race.value = "Timeout error"

\* ------------------------------------------------- throttle: the claims
th_dom == 1..Len(th_trace)
th_noCancel == \A i \in th_dom : th_trace[i].kind # "cancel"
\* the call scheduled a timer
th_scheduled(i) ==
  /\ th_trace[i].kind = "call"
  /\ ~th_trace[i].pending
  /\ ~th_trace[i].threw
\* a timer was scheduled before event i and had neither fired nor been cleared
th_timerPending(i) ==
  \E k \in 1..(i - 1) :
    /\ th_scheduled(k)
    /\ \A m \in (k + 1)..(i - 1) : th_trace[m].kind = "call"
\* the first firing after event i, 0 when there is none
th_nextFire(i) ==
  IF \E j \in th_dom : j > i /\ th_trace[j].kind = "fire"
    THEN CHOOSE j \in th_dom :
           /\ j > i
           /\ th_trace[j].kind = "fire"
           /\ \A m \in (i + 1)..(j - 1) : th_trace[m].kind # "fire"
    ELSE 0
\* call i leads to one invocation of fn, at the firing of the timer it set,
\* with its own arguments
th_runsOnceAtFire(i) ==
  /\ ~th_trace[i].ran
  /\ IF th_nextFire(i) = 0
       THEN timers = {[id |-> th_timerId, deadline |-> th_trace[i].at + Delay,
                       args |-> th_trace[i].args]}
       ELSE /\ th_trace[th_nextFire(i)].ran
            /\ th_trace[th_nextFire(i)].args = th_trace[i].args
            /\ th_trace[th_nextFire(i)].at >= th_trace[i].at + Delay
            /\ \A m \in (i + 1)..(th_nextFire(i) - 1) : ~th_trace[m].ran

\* what holds of the code: the same with "finds timerId null" in the place of
\* "finds no timer pending"
th_firstCallOncePerWindow ==
  (~th_isImmediate /\ th_noCancel) =>
    /\ \A i \in th_dom :
         (th_trace[i].kind = "call" /\ ~th_trace[i].pending) => th_runsOnceAtFire(i)
    /\ \A j \in th_dom :
         th_trace[j].kind = "fire" =>
           \E i \in 1..(j - 1) :
             /\ th_trace[i].kind = "call" /\ ~th_trace[i].pending
             /\ th_nextFire(i) = j

\* C13: in non-immediate mode with cancel() never called, every wrapper call
\* that finds no timer pending leads to exactly one invocation of fn, made
\* when the timer of its window fires and with the arguments of that call,
\* however many calls arrive in the window; so fn keeps being invoked once
\* per window.
C13_FirstCallOncePerWindow ==
  (~th_isImmediate /\ th_noCancel) =>
    \A i \in th_dom :
      (th_trace[i].kind = "call" /\ ~th_timerPending(i)) => th_runsOnceAtFire(i)

\* the events of the window call i begins: up to the firing of its timer, or
\* up to now while that has not happened
th_window(i) ==
  i..(IF th_nextFire(i) = 0 THEN Len(th_trace) ELSE th_nextFire(i))

\* what holds of the code: a leading invocation that returns opens a window
\* with no other invocation in it, and no firing invokes fn in immediate mode
th_oncePerScheduledWindow ==
  th_noCancel =>
    /\ \A i \in th_dom :
         th_scheduled(i) => Cardinality({m \in th_window(i) : th_trace[m].ran}) <= 1
    /\ th_isImmediate =>
         \A m \in th_dom : th_trace[m].ran <=> (th_trace[m].kind = "call" /\ ~th_trace[m].pending)

\* C14: in either mode with cancel() never called, fn is invoked at most once
\* per window, a window beginning at a call that finds no timer pending and
\* ending when that timer fires; in immediate mode the invocation is the
\* leading call's and the firing invokes nothing.
C14_AtMostOncePerWindow ==
  th_noCancel =>
    /\ \A i \in th_dom :
         (th_trace[i].kind = "call" /\ ~th_timerPending(i)) =>
           Cardinality({m \in th_window(i) : th_trace[m].ran}) <= 1
    /\ th_isImmediate =>
         \A m \in th_dom :
           th_trace[m].ran => (th_trace[m].kind = "call" /\ ~th_timerPending(m))

\* the step is a wrapper call made while a timer is pending
th_callWhilePending ==
  /\ timers # {}
  /\ Len(th_trace') = Len(th_trace) + 1
  /\ Last(th_trace').kind = "call"
\* the call that scheduled the timer firing at event j
th_opener(j) ==
  CHOOSE k \in 1..(j - 1) :
    /\ th_scheduled(k)
    /\ \A m \in (k + 1)..(j - 1) : th_trace[m].kind = "call"
\* fn is invoked by calls that found timerId null and by firings only, and a
\* firing passes the arguments of the call that scheduled the timer
th_onlyOpenersReachFn ==
  \A j \in th_dom :
    /\ (th_trace[j].kind = "call" /\ th_trace[j].ran) => ~th_trace[j].pending
    /\ th_trace[j].kind = "fire" =>
         /\ th_timerPending(j)
         /\ th_trace[j].args = th_trace[th_opener(j)].args
         /\ th_trace[j].at >= th_trace[th_opener(j)].at + Delay

\* C15: a call to the throttled wrapper while a timer is pending changes
\* nothing: fn is not invoked, the timer and its deadline stay as they are,
\* and the slot keeps its handle; the arguments of such a call never reach
\* fn, and a timer is scheduled only by a call that finds none pending.
C15_DroppedCallChangesNothing ==
  [][/\ th_callWhilePending =>
          /\ ~Last(th_trace').ran
          /\ timers' = timers
          /\ th_timerId' = th_timerId
          /\ nextId' = nextId
     /\ (timers' \ timers # {}) => (timers = {} /\ Last(th_trace').kind = "call")
     /\ th_onlyOpenersReachFn']_vars

\* a call with other arguments was dropped in a window whose timer then fired
\* and invoked fn with the arguments of the window's first call
C15_Witness ==
  \E i, j, k \in th_dom :
    /\ i < j /\ j < k
    /\ th_scheduled(i)
    /\ th_trace[j].kind = "call" /\ th_trace[j].pending
    /\ th_trace[j].args # th_trace[i].args
    /\ th_trace[k].kind = "fire" /\ th_trace[k].ran
    /\ th_opener(k) = i
    /\ th_trace[k].args = th_trace[i].args

\* ------------------------------------- debounce and throttle: the claims
\* the instance's isImmediate, timer slot and history, whichever primitive it is
ctl_isImmediate ==
  CASE controller = "debounce" -> d_isImmediate
    [] controller = "throttle" -> th_isImmediate
    [] OTHER -> p_isImmediate
ctl_timerId ==
  CASE controller = "debounce" -> d_timerId
    [] controller = "throttle" -> th_timerId
    [] OTHER -> p_timerId
\* debouncePromise exposes no cancel(); its history is not of this shape
ctl_trace ==
  CASE controller = "debounce" -> d_trace
    [] controller = "throttle" -> th_trace
    [] OTHER -> <<>>
ctl_dom == 1..Len(ctl_trace)
\* event k is a wrapper call that scheduled a timer
ctl_scheduled(k) ==
  /\ ctl_trace[k].kind = "call"
  /\ ~ctl_trace[k].threw
  /\ controller = "throttle" => ~ctl_trace[k].pending
\* the step appends an event of this kind
ctl_step(kind) ==
  /\ Len(ctl_trace') = Len(ctl_trace) + 1
  /\ Last(ctl_trace').kind = kind
\* a timer scheduled earlier has neither fired nor been cleared, and no later
\* call has replaced it
ctl_timerLive ==
  \E k \in ctl_dom :
    /\ ctl_scheduled(k)
    /\ \A m \in (k + 1)..Len(ctl_trace) :
         /\ ctl_trace[m].kind = "call"
         /\ ctl_trace[m].threw \/ (controller = "throttle" /\ ctl_trace[m].pending)
\* the last timer scheduled, as the first call on a fresh instance leaves it
ctl_freshTimer(ev) == [id |-> nextId, deadline |-> now + Delay, args |-> ev.args]

\* C16: for debounce and throttle, cancel() clears the pending timer, whose
\* callback then never runs (every firing is of a timer scheduled after the
\* last cancel()), and the wrapper call that follows a cancel() does what the
\* first call on a fresh instance does: it finds the slot null, invokes fn at
\* once exactly in immediate mode, whatever the time since the last
\* invocation, and schedules the one timer of a new window.
C16_CancelRestoresFresh ==
  [][/\ ctl_step("cancel") => (timers' = {} /\ ctl_timerId' = NULL)
     /\ ctl_step("fire") => ctl_timerLive
     /\ (ctl_step("call") /\ ctl_trace # <<>> /\ Last(ctl_trace).kind = "cancel") =>
          LET ev == Last(ctl_trace')
          IN /\ ~ev.pending
             /\ ev.ran = ctl_isImmediate
             /\ IF ev.threw
                  THEN timers' = {} /\ ctl_timerId' = NULL
                  ELSE timers' = {ctl_freshTimer(ev)} /\ ctl_timerId' = nextId]_vars

\* a leading invocation, cancel() with the timer pending, and a call less than
\* the delay later that invokes fn again; the cleared timer never fired
C16_Witness ==
  \E i \in ctl_dom :
    /\ i + 2 \in ctl_dom
    /\ ctl_scheduled(i) /\ ctl_trace[i].ran
    /\ ctl_trace[i + 1].kind = "cancel" /\ ctl_trace[i + 1].pending
    /\ ctl_trace[i + 2].kind = "call" /\ ctl_trace[i + 2].ran
    /\ ctl_trace[i + 2].at < ctl_trace[i].at + Delay
    /\ now >= ctl_trace[i].at + Delay
    /\ \A m \in ctl_dom : ctl_trace[m].kind # "fire"

\* cancel() does nothing: the slot, the timer table and the handles stay as
\* they are, and clearTimeout is not called
ctl_cancelIsNoop ==
  /\ ~Last(ctl_trace').pending
  /\ ctl_timerId' = ctl_timerId
  /\ timers' = timers
  /\ nextId' = nextId

\* what holds of the code: cancel() is a no-op right after a cancel(), and
\* whenever the slot is null
ctl_secondCancelIsNoop ==
  [][(/\ ctl_step("cancel")
      /\ \/ ctl_trace # <<>> /\ Last(ctl_trace).kind = "cancel"
         \/ ctl_timerId = NULL) => ctl_cancelIsNoop]_vars

\* C17: for a debounced or throttled wrapper, cancel() called right after a
\* cancel(), or called when no timer is pending, leaves the state of the
\* controller as it is, raises no error and clears no timer again.
C17_CancelIdempotent ==
  [][(/\ ctl_step("cancel")
      /\ \/ ctl_trace # <<>> /\ Last(ctl_trace).kind = "cancel"
         \/ timers = {}) => ctl_cancelIsNoop]_vars

\* ------------------------------------------- every controller: the claims
\* C18: an instance of debounce, throttle or debouncePromise has, in every
\* reachable state, at most one timer that is scheduled and has neither fired
\* nor been cleared; that timer is the one whose handle the slot holds.
C18_AtMostOneTimer ==
  /\ Cardinality(timers) <= 1
  /\ \A t \in timers : t.id = ctl_timerId /\ t.id < nextId

\* what holds of the code: the same, as long as fn does not call the wrapper
\* from inside the timer callback (the runs of SpecController)
ctl_atMostOneTimerUnlessReentered ==
  (\A r \in p_dom : p_trace[r].kind # "reenter") =>
    /\ Cardinality(timers) <= 1
    /\ \A t \in timers : t.id = ctl_timerId /\ t.id < nextId

\* ------------------------------- debouncePromise: the waiter list claims
\* call k was pushed on resolveList
p_waiter(k) == p_trace[k].kind = "call" /\ ~p_trace[k].ran
\* the firing that closes the window call k was made in
p_closer(k) ==
  CHOOSE j \in p_dom : p_trace[j].kind = "fire" /\ p_window(k, j)
p_listed(k) == \E n \in 1..Len(p_resolveList) : p_resolveList[n] = k
\* resolveList holds its waiters in the order they were enqueued
p_inEnqueueOrder ==
  \A m, n \in 1..Len(p_resolveList) : m < n => p_resolveList[m] < p_resolveList[n]
\* waiter k was settled when its window closed, with what the window produced,
\* as was every other waiter of that window
p_settledAtClose(k) ==
  /\ ~p_listed(k)
  /\ p_promise[k].state # "pending"
  /\ p_promise[k].by <= p_closer(k)
  /\ \A h \in p_dom :
       (p_waiter(h) /\ ~p_open(h) /\ p_closer(h) = p_closer(k)) => p_promise[h] = p_promise[k]

\* what holds of the code: the same for every window but those whose timer
\* callback had fn throw
p_waitersSettledUnlessCallbackThrows ==
  (\A j \in p_dom : ~(p_trace[j].kind = "fire" /\ p_trace[j].outcome = "throws")) =>
    /\ p_inEnqueueOrder
    /\ timers = {} => p_resolveList = <<>>
    /\ \A k \in p_dom :
         p_waiter(k) =>
           IF p_open(k) THEN p_listed(k) /\ p_promise[k].state = "pending"
           ELSE p_settledAtClose(k)

\* C19: every waiter enqueued during a window of debouncePromise is handed, in
\* enqueue order, the same result or error when the window closes; the list
\* is empty once the window has closed, so no waiter is resolved by the
\* invocation of a later window, and the list is empty whenever no timer is
\* pending.
C19_WaitersSettledAtClose ==
  /\ p_inEnqueueOrder
  /\ timers = {} => p_resolveList = <<>>
  /\ \A k \in p_dom :
       p_waiter(k) =>
         IF p_open(k) THEN p_listed(k) /\ p_promise[k].state = "pending"
         ELSE p_settledAtClose(k)

\* ------------------------------------- concurrentN: the claims on starts
\* the tasks whose promise has fulfilled
c_fulfilled == {k \in 1..Len(c.promises) : c.promises[k].state = "fulfilled"}
\* tasks are called in index order, each once, with the arguments of run; the
\* call of run starts the first min(concurrency, number of tasks) of them, and
\* once the reactions have run every fulfilment has let one more task start
c_startsInOrder ==
  /\ \A i \in 1..Len(c.calls) :
       /\ c.calls[i].task = i - 1
       /\ c.calls[i].args = c_args
  /\ c.started => Len(c.calls) >= Min(c_concurrency, Len(c_fns))
  /\ (c.started /\ c.jobs = <<>>) =>
       Len(c.calls) = Min(Len(c_fns), c_concurrency + Cardinality(c_fulfilled))

\* what holds of the code: the same, as long as no task throws when called
c_startsInOrderUnlessThrown == (c_concurrency >= 1 /\ c_noThrower) => c_startsInOrder

\* C20: with concurrency >= 1, tasks are started in index order, each at most
\* once and each with the arguments given to run; the first
\* min(concurrency, number of tasks) are started within the call of run, and
\* each fulfilment of a started task starts the next task not yet started.
C20_StartsInIndexOrder == c_concurrency >= 1 => c_startsInOrder

\* ------------------------------------- debounce: the return value claim
\* C21: the debounced wrapper returns the value fn returned on a call that
\* makes the leading invocation (immediate mode, no timer pending), and
\* undefined on every other call: any call in non-immediate mode, and a call
\* in immediate mode while a timer is pending.
C21_ReturnsLeadingResult ==
  /\ Len(d_returns) = Len(d_trace)
  /\ \A i \in d_dom :
       (d_trace[i].kind = "call" /\ ~d_trace[i].threw) =>
         d_returns[i] = IF d_isImmediate /\ ~d_trace[i].pending
                          THEN 10 * d_trace[i].args
                          ELSE UNDEFINED

\* a leading call returned fn's value, the call after it, made in its window,
\* returned undefined
C21_Witness ==
  \E i \in d_dom :
    /\ i + 1 \in d_dom
    /\ d_trace[i].kind = "call" /\ d_trace[i].ran /\ d_returns[i] = 10 * d_trace[i].args
    /\ d_trace[i + 1].kind = "call" /\ d_trace[i + 1].pending
    /\ d_returns[i + 1] = UNDEFINED

\* ------------------------------ debouncePromise: the re-entrant call claim
\* event r is a wrapper call made by fn from inside the timer callback
p_reentered(r) == p_trace[r].kind = "reenter"
\* no firing has happened since the callback r was made in
p_sinceCallback(r) == \A m \in (r + 1)..Len(p_trace) : p_trace[m].kind # "fire"

\* C22: a wrapper call made while the timer callback of debouncePromise is
\* executing starts a new window: its waiter is not resolved with the waiters
\* of the window that is closing (it waits for the next firing), and the timer
\* it scheduled stays the pending timer of the controller, held by the slot.
C22_ReentrantCallStartsWindow ==
  \A r \in p_dom :
    p_reentered(r) =>
      /\ p_promise[r].state # "pending" => p_promise[r].by > r
      /\ p_sinceCallback(r) =>
           /\ p_promise[r].state = "pending"
           /\ p_listed(r)
           /\ \E t \in timers : t.id = p_timerId

\* -------------------------------------- every controller: the slot claim
\* the last thing that happened to the instance is a firing or a cancel()
ctl_justEnded ==
  \/ d_trace # <<>> /\ Last(d_trace).kind \in {"fire", "cancel"}
  \/ th_trace # <<>> /\ Last(th_trace).kind \in {"fire", "cancel"}
  \/ p_trace # <<>> /\ Last(p_trace).kind = "fire"
\* fn threw inside the timer callback that ran last
ctl_callbackThrew ==
  \/ d_trace # <<>> /\ Last(d_trace).kind = "fire" /\ Last(d_trace).threw
  \/ th_trace # <<>> /\ Last(th_trace).kind = "fire" /\ Last(th_trace).threw
  \/ p_trace # <<>> /\ Last(p_trace).kind = "fire" /\ Last(p_trace).outcome = "throws"
\* a throttled call made right after a firing is not dropped
th_acceptsAfterFiring ==
  \A i \in th_dom :
    (i > 1 /\ th_trace[i].kind = "call" /\ th_trace[i - 1].kind = "fire") =>
      ~th_trace[i].pending

\* what holds of the code: the slot is null after a cancel() and after a
\* firing in which fn did not throw
ctl_slotNullUnlessCallbackThrew ==
  (ctl_justEnded /\ ~ctl_callbackThrew) => (ctl_timerId = NULL /\ timers = {})

\* C23: for debounce, throttle and debouncePromise, once the pending timer
\* has fired or been cancelled the slot is null, whatever fn did in the timer
\* callback, a synchronous throw included; so a non-immediate throttle takes
\* the call after any firing as the start of a new window.
C23_SlotNullAfterFireOrCancel ==
  /\ ctl_justEnded => ctl_timerId = NULL
  /\ th_acceptsAfterFiring

\* ------------------------------- concurrentN: the claims on rejection
\* the run promise has rejected with the error of a task's rejected promise
c_rejectedByTask ==
  /\ c.run = "rejected"
  /\ \E k \in 1..Len(c.promises) :
       c.promises[k].state = "rejected" /\ c.promises[k].value = c.runReason

\* C24: once the rejection of a task has made the run promise reject, no task
\* that was not yet started is started, whatever in-flight tasks fulfil later.
C24_NoStartAfterRejection ==
  [][c_rejectedByTask => c'.calls = c.calls]_vars

\* ----------------------------------------- timeout: the tie-break claim
to_timeOf(e) == to_times[to_pos(e)]
\* promise settled and the timer fired at the same reading of the clock
to_tie ==
  /\ to_happened("settle") /\ to_happened("fire")
  /\ to_timeOf("settle") = to_timeOf("fire")
\* promise was settled already when timeout was called, and the duration is 0
to_settledAtCallZero ==
  /\ to_happened("settle") /\ to_happened("call")
  /\ to_pos("settle") < to_pos("call")
  /\ to_time = 0
\* promise's own timer was scheduled before timeout was called and is due
\* when the timer of the duration is
to_ownTimerSameDeadline ==
  /\ to_happened("arm") /\ to_happened("call")
  /\ to_pos("arm") < to_pos("call")
  /\ to_timeOf("arm") + timerDelay(to_ownDelay) = to_timeOf("call") + timerDelay(to_time)
to_timeoutError ==
  TPromise("rejected", IF to_message = "undefined" THEN "Timeout error" ELSE to_message)

\* C25 as stated: when promise settles and the timer of the duration fires in
\* the same tick, the promise timeout returned takes promise's outcome and
\* not the timeout error.
C25_TieTakesPromiseOutcome ==
  (to_tie /\ to_jobs = <<>>) => to_race = to_promise

\* C25 amended: in a tie the returned promise takes the outcome of whichever
\* of the two the host ran first: promise's when promise settled before the
\* timer's callback ran, the timeout error when the callback ran first. It
\* is promise's whenever promise was settled at the call (with duration 0
\* too), and whenever promise's own timer has the deadline of the duration
\* and was scheduled before timeout was called.
C25_TieTakesFirstInEventOrder ==
  /\ (to_tie /\ to_jobs = <<>>) =>
       to_race = IF to_pos("settle") < to_pos("fire") THEN to_promise ELSE to_timeoutError
  /\ (to_settledAtCallZero /\ to_happened("fire") /\ to_jobs = <<>>) => to_race = to_promise
  /\ (to_ownTimerSameDeadline /\ to_happened("settle") /\ to_happened("fire") /\ to_jobs = <<>>)
       => to_race = to_promise

\* promise's own timer and the timer of the duration, due together, both
\* fired at that time; promise's outcome was taken
C25_Witness ==
  /\ to_ownTimerSameDeadline
  /\ to_tie
  /\ to_timeOf("fire") = to_timeOf("call") + timerDelay(to_time)
  /\ to_time > 0
  /\ to_jobs = <<>>
  /\ to_race = TPromise("fulfilled", "value")

\* ------------------------------------ concurrentN: the progress claims
c_someRejected == \E k \in 1..Len(c.promises) : c.promises[k].state = "rejected"
\* every task has been started, once each and in order
c_allStartedOnce ==
  /\ Len(c.calls) = Len(c_fns)
  /\ \A i \in 1..Len(c.calls) : c.calls[i].task = i - 1

\* C26: once run is called with concurrency >= 1 and at least one task, if
\* every task that is started fulfils (none throws, none rejects), every task is
\* started exactly once and the run promise fulfils in the end, whatever the
\* number of tasks, the limit and the order in which the tasks fulfil.
C26_AllStartedAndResolved ==
  (c.started /\ c_concurrency >= 1 /\ Len(c_fns) >= 1 /\ c_noThrower)
    ~> (c_someRejected \/ (c.run = "fulfilled" /\ c_allStartedOnce))

\* more tasks than the limit, all fulfilled, a later task before an earlier
\* one, and the run promise fulfilled
C26_Witness ==
  /\ c_concurrency >= 1
  /\ Len(c_fns) > c_concurrency
  /\ c_allFulfilled /\ c_allStartedOnce
  /\ c.run = "fulfilled"
  /\ \E i, j \in 1..Len(c.order) : i < j /\ c.order[i] > c.order[j]

\* ------------------------------------ debouncePromise: the progress claims
\* fn has thrown synchronously in some invocation
p_threw == \E i \in 1..Len(p_trace) : p_trace[i].outcome = "throws"
\* the promise returned by the wrapper call of event i is still pending
p_pendingAt(i) == i <= Len(p_promise) /\ p_promise[i].state = "pending"

\* C27: in either mode, the wrapper being called finitely often and every
\* promise fn returns settling, every promise the wrapper returned is settled in
\* the end unless fn throws synchronously: no caller is left pending for ever.
C27_EveryCallerSettles ==
  \A i \in 1..(2 * MaxEvents) : p_pendingAt(i) ~> (p_threw \/ ~p_pendingAt(i))

\* a promise that had to wait for the timer has been resolved by its callback,
\* and no promise is pending
C27_Witness ==
  /\ ~p_threw
  /\ \A i \in 1..Len(p_promise) : p_promise[i].state # "pending"
  /\ \E i, j \in 1..Len(p_trace) :
       /\ i < j
       /\ p_trace[i].kind \in {"call", "reenter"} /\ ~p_trace[i].ran
       /\ p_trace[j].kind = "fire"
       /\ p_promise[i].state = "resolved"

\* run has started the first task and no other; the run promise has not
\* fulfilled, is pending when that task has fulfilled, and is rejected only with
\* the error the first task threw or rejected with
c_onlyFirstTask ==
  /\ Len(c.calls) = 1 /\ c.calls[1].task = 0
  /\ c.run \in {"pending", "rejected"}
  /\ c.run = "rejected" =>
       /\ c.runReason = TaskError(0)
       /\ \/ c.calls[1].threw
          \/ c.promises # <<>> /\ c.promises[1].state = "rejected"
  /\ (c.promises # <<>> /\ c.promises[1].state = "fulfilled") => c.run = "pending"

\* C28 as stated: with any concurrency below 1 (0.5 and -0.5 too) and at least
\* one task, run starts the first task and no other, ever; the run promise does
\* not settle when that task fulfils, and it rejects only with the error the
\* first task threw or rejected with.
C28_LimitBelowOne ==
  (c_limit < 2 /\ Len(c_fns) >= 1 /\ c.started) => c_onlyFirstTask

\* C28 amended: the same for a concurrency of 0 or less. (A concurrency above
\* 0 and below 1 leaves room whenever nothing is running, so the tasks run one
\* after the other and the run promise settles.)
C28_LimitZeroOrLess ==
  (c_limit <= 0 /\ Len(c_fns) >= 1 /\ c.started) => c_onlyFirstTask

\* the first of several tasks has fulfilled, nothing is left to run, and the run
\* promise is pending
C28_Witness ==
  /\ c_limit <= 0
  /\ Len(c_fns) >= 2
  /\ Len(c.calls) = 1
  /\ c.promises # <<>> /\ c.promises[1].state = "fulfilled"
  /\ c.jobs = <<>>
  /\ c.run = "pending"

\* ------------------------------------ concurrentN: overlapping invocations
\* what an invocation st of the runner shows of itself: every call it made got
\* its own arguments, running stayed within the limit, the promises it holds
\* are those of its own calls, and its result is made of its own values
c_ownRun(st) ==
  /\ \A i \in 1..Len(st.calls) : st.calls[i].args = st.args
  /\ 0 <= st.running /\ st.running <= st.peak /\ st.peak <= c_concurrency
  /\ Len(st.promises) = Cardinality({i \in 1..Len(st.calls) : ~st.calls[i].threw})
  /\ \A k \in 1..Len(st.promises) :
       /\ st.promises[k].state = "fulfilled" => st.promises[k].value = TaskValue(k - 1, st.args)
       /\ st.promises[k].state = "rejected" => st.promises[k].value = TaskError(k - 1)
  /\ st.run = "fulfilled" =>
       /\ Len(st.runValue) = Len(c_fns)
       /\ \A i \in 1..Len(c_fns) : st.runValue[i] = TaskValue(i - 1, st.args)
  /\ st.started => Len(st.calls) >= 1 /\ st.calls[1].task = 0

\* C29: the limit is kept per invocation of run: each of two overlapping
\* invocations of one runner has its own running counter, its own list of
\* started tasks and its own results, whatever the other does.
C29_LimitPerInvocation == c_concurrency >= 1 => c_ownRun(c) /\ c_ownRun(c2)

\* two invocations with different arguments, each with as many tasks in flight
\* as the limit allows: twice the limit in all
C29_Witness ==
  /\ c_concurrency >= 1
  /\ c_args # c2_args
  /\ c.running = c_concurrency /\ c2.running = c_concurrency
  /\ Cardinality({k \in 1..Len(c.promises) : c.promises[k].state = "pending"}) = c_concurrency
  /\ Cardinality({k \in 1..Len(c2.promises) : c2.promises[k].state = "pending"}) = c_concurrency

\* ------------------------------------ debouncePromise: a leading call that throws
\* event i is a leading call in which fn threw
p_leadingThrow(i) ==
  /\ p_trace[i].kind = "call" /\ p_trace[i].ran /\ p_trace[i].outcome = "throws"
\* this step is a leading call in which fn throws
p_leadingThrowStep ==
  /\ Len(p_trace') = Len(p_trace) + 1
  /\ LET e == p_trace'[Len(p_trace')]
     IN e.kind = "call" /\ e.ran /\ e.outcome = "throws"
\* what such calls leave behind: the promise of the call is rejected with what
\* fn threw, and the event after it, if any, is a wrapper call that is a leading
\* call again and invokes fn; until then no timer is pending and the slot is null
p_afterLeadingThrow ==
  \A i \in 1..Len(p_trace) :
    p_leadingThrow(i) =>
      /\ p_isImmediate /\ ~p_trace[i].pending
      /\ p_promise[i] = PPromise("rejected", i)
      /\ IF i < Len(p_trace)
           THEN /\ p_trace[i + 1].kind = "call"
                /\ p_trace[i + 1].ran /\ p_trace[i + 1].outcome # "none"
           ELSE p_timerId = NULL /\ timers = {} /\ p_leading(p_isImmediate, p_timerId)

\* C30: in immediate mode, when fn throws synchronously in a leading call, the
\* promise of that call is rejected with the error, no timer is scheduled and the
\* slot stays null, the waiter list is as it was, and the next wrapper call is a
\* leading call again, which invokes fn.
C30_LeadingThrowLeavesNoWindow ==
  /\ []p_afterLeadingThrow
  /\ [][p_leadingThrowStep =>
          /\ timers' = timers /\ nextId' = nextId
          /\ p_timerId = NULL /\ p_timerId' = NULL
          /\ p_resolveList' = p_resolveList
          /\ p_result' = p_result]_vars

\* after a window that was opened and closed, a leading call threw and the call
\* after it was a leading call that invoked fn
C30_Witness ==
  \E i \in 2..(Len(p_trace) - 1) :
    /\ p_leadingThrow(i)
    /\ p_trace[i - 1].kind = "fire"
    /\ p_trace[i + 1].kind = "call" /\ p_trace[i + 1].ran
    /\ p_trace[i + 1].outcome = "returns"

====
